---- MODULE Spec2Model ----
(***************************************************************************)
(* A model of src/main.py: the Conversation class (history, send in both   *)
(* modes, the streaming generator, trimming, clear) and the agent loop of  *)
(* the __main__ block together with its input thread.                      *)
(*                                                                         *)
(* Text is modelled as a sequence of tokens (strings), so that             *)
(* concatenation, join and strip are computed and not assumed.             *)
(*                                                                         *)
(* Spec      drives one Conversation through its public methods, with any  *)
(*           interleaving of send calls and of next() calls on the         *)
(*           generators that streaming sends returned.                     *)
(* LoopSpec  runs the __main__ block: the main thread's loop and the       *)
(*           input thread, sharing input_queue.                            *)
(* HeapSpec  keeps the history as list and dict objects, for get_history   *)
(*           and what a caller does with the list it returns.              *)
(* LiveSpec  is the loop without its logs, running for ever under weak     *)
(*           fairness of the main thread.                                  *)
(***************************************************************************)
EXTENDS Integers, Sequences, FiniteSets, TLC

VARIABLES
    \* Conversation
    max_memory,     \* Conversation.max_memory
    messages,       \* Conversation.messages
    calls,          \* one record per send call made so far (see NewCall,
                    \* Retire)
    appended,       \* every turn appended since creation or the last clear
    cleared,        \* number of clear() calls made
    lastEvent,      \* the operation that produced the current state
    \* __main__
    pc,             \* where the main thread is
    command,        \* command
    commandFor,     \* content of the turn the backend was answering with command
    shell_output,   \* shell_output of the last completed subprocess.run
    feedback,       \* feedback
    user_messages,  \* user_messages
    error,          \* str(e) of the exception being handled
    input_queue,    \* input_queue, oldest entry first
    inputOpen,      \* the input thread has not seen EOFError yet
    linesRead,      \* lines input() has returned
    pushed,         \* every message put on input_queue, in order
    drains,         \* every finished drain: its user_messages, and how many
                    \* messages had been put on the queue when it finished
    executed,       \* every command handed to subprocess.run, in order, with
                    \* the content of the turn it was the reply to
    outcomes,       \* how each subprocess.run ended, in order
    reported,       \* a send was made since the last subprocess.run ended
    sends,          \* conv.send calls made by the loop
    replies,        \* conv.send calls that returned a reply
    fresh,          \* command was returned by a send after the last execution
    interrupted,    \* a KeyboardInterrupt was delivered
    \* the objects behind get_history
    dicts,          \* every turn dict created, by identity
    lists,          \* every list object created, by identity: the
                    \* identities of the dicts it holds, in order
    self_messages,  \* identity of the list bound to Conversation.messages
    returned,       \* identity of the list get_history returned last, 0
                    \* before the first call
    heapOps         \* how many sends, clears, get_history calls and caller
                    \* mutations were made on these objects

convVars == <<max_memory, messages, calls, appended, cleared, lastEvent>>

loopVars == <<pc, command, commandFor, shell_output, feedback, user_messages,
              error, input_queue, inputOpen, linesRead, pushed, drains,
              executed, outcomes, reported, sends, replies, fresh,
              interrupted>>

heapVars == <<dicts, lists, self_messages, returned, heapOps>>

vars == <<convVars, loopVars, heapVars>>

----------------------------------------------------------------------------
(* Bounds *)

MaxSends == 3       \* send calls per behaviour
MaxFrags == 2       \* fragments one stream yields
MaxMemory == 4      \* largest max_memory tried
MaxStreams == 1     \* streaming sends per behaviour
MaxClears == 1      \* clear calls per behaviour
MaxCycles == 2      \* command executions of the agent loop
MaxInputs == 2      \* lines the input thread reads
MaxSnapshots == 1   \* get_history calls per behaviour
MaxEdits == 1       \* mutations the caller makes on a returned list

----------------------------------------------------------------------------
(* Inputs *)

\* Conversation never looks inside a message, a reply or a fragment, so each
\* is given a content that tells it apart from every other one.

\* the message handed to the k-th send call
MessageOf(k) == <<"m" \o ToString(k)>>

\* response['message']['content'] of the reply to the k-th send call
ReplyOf(k) == <<"r" \o ToString(k)>>

\* chunk['message']['content'] of the j-th chunk streamed to the k-th call
FragmentOf(k, j) == <<"c" \o ToString(k) \o "." \o ToString(j)>>

MemoryValues == (-1) .. MaxMemory

----------------------------------------------------------------------------
(* Conversation *)

UserTurn(message) == [role |-> "user", content |-> message]

AssistantTurn(content) == [role |-> "assistant", content |-> content]

\* _trim_history keeping the oldest turns instead of the newest
TrimKeepsOldest(history, limit) ==
    IF limit > 0 /\ Len(history) > limit
    THEN SubSeq(history, 1, limit)
    ELSE history

\* _trim_history with excess one too small
TrimWithoutPositiveCheck(history, limit) ==
    IF Len(history) > limit
    THEN SubSeq(history, (Len(history) - limit) + 1, Len(history))
    ELSE history

TrimKeepsOneMore(history, limit) ==
    IF limit > 0 /\ Len(history) > limit
    THEN SubSeq(history, Len(history) - limit, Len(history))
    ELSE history

\* self.messages[excess:] with excess = len(self.messages) - self.max_memory
_trim_history(history, limit) ==
    IF limit > 0 /\ Len(history) > limit
    THEN SubSeq(history, (Len(history) - limit) + 1, Len(history))
    ELSE history

\* the record kept for a send call
\*   requested/request  whether ollama.chat was called, and with which history
\*   yielded            the fragments the generator yielded, in order
\*   full_response      the generator's local full_response
\*   userAppends, asstAppends, asstContent   what the call appended
NewCall(message, stream) ==
    [message |-> message, stream |-> stream, status |-> "created",
     requested |-> FALSE, request |-> <<>>,
     yielded |-> <<>>, full_response |-> <<>>,
     userAppends |-> 0, asstAppends |-> 0, asstContent |-> <<>>]

\* The record of a call that has returned or raised is kept until the next
\* operation on the Conversation and then blanked: nothing a call did is
\* changed by later operations.
Retire(records) ==
    [i \in 1 .. Len(records) |->
        IF records[i].status \in {"done", "failed"}
        THEN [NewCall(<<>>, records[i].stream) EXCEPT !.status = "retired"]
        ELSE records[i]]

\* self.messages = [] of __init__, as objects: one empty list, no dict
HeapInit ==
    /\ dicts = <<>>
    /\ lists = << <<>> >>
    /\ self_messages = 1
    /\ returned = 0
    /\ heapOps = [send |-> 0, clear |-> 0, get |-> 0, edit |-> 0]

ConversationInit ==
    /\ HeapInit
    /\ messages = <<>>
    /\ calls = <<>>
    /\ appended = <<>>
    /\ cleared = 0
    /\ lastEvent = <<"init", 0>>

\* the __main__ block before line 137, the input thread started
MainInit ==
    /\ pc = "start"
    /\ command = <<>>
    /\ commandFor = <<>>
    /\ shell_output = [stdout |-> <<>>, stderr |-> <<>>, returncode |-> 0]
    /\ feedback = <<>>
    /\ user_messages = <<>>
    /\ error = <<>>
    /\ input_queue = <<>>
    /\ inputOpen = TRUE
    /\ linesRead = 0
    /\ pushed = <<>>
    /\ drains = <<>>
    /\ executed = <<>>
    /\ outcomes = <<>>
    /\ reported = FALSE
    /\ sends = 0
    /\ replies = 0
    /\ fresh = FALSE
    /\ interrupted = FALSE

Init ==
    /\ max_memory \in MemoryValues
    /\ ConversationInit
    /\ MainInit

\* send(message) followed by _get_response; the request succeeds with reply
SendReply(message, reply) ==
    /\ Len(calls) < MaxSends
    /\ LET sent == Append(messages, UserTurn(message))
           answered == Append(sent, AssistantTurn(reply))
       IN /\ messages' = _trim_history(answered, max_memory)
          /\ appended' = appended \o <<UserTurn(message), AssistantTurn(reply)>>
          /\ calls' = Append(Retire(calls),
                [NewCall(message, FALSE) EXCEPT
                    !.status = "done", !.requested = TRUE, !.request = sent,
                    !.userAppends = 1, !.asstAppends = 1,
                    !.asstContent = reply])
    /\ lastEvent' = <<"send_done", Len(calls) + 1>>
    /\ UNCHANGED <<max_memory, cleared, loopVars, heapVars>>

\* send(message) followed by _get_response; ollama.chat raises
SendFail(message) ==
    /\ Len(calls) < MaxSends
    /\ LET sent == Append(messages, UserTurn(message))
       IN /\ messages' = sent
          /\ appended' = Append(appended, UserTurn(message))
          /\ calls' = Append(Retire(calls),
                [NewCall(message, FALSE) EXCEPT
                    !.status = "failed", !.requested = TRUE, !.request = sent,
                    !.userAppends = 1])
    /\ lastEvent' = <<"send_failed", Len(calls) + 1>>
    /\ UNCHANGED <<max_memory, cleared, loopVars, heapVars>>

\* send(message, stream=True): the user turn is appended and a generator is
\* returned whose body has not started
SendStream(message) ==
    /\ Len(calls) < MaxSends
    /\ Cardinality({i \in 1 .. Len(calls) : calls[i].stream}) < MaxStreams
    /\ messages' = Append(messages, UserTurn(message))
    /\ appended' = Append(appended, UserTurn(message))
    /\ calls' = Append(Retire(calls),
            [NewCall(message, TRUE) EXCEPT !.userAppends = 1])
    /\ lastEvent' = <<"send_stream", Len(calls) + 1>>
    /\ UNCHANGED <<max_memory, cleared, loopVars, heapVars>>

\* the call record once the generator's body has reached the for loop:
\* on the first next() ollama.chat is called with the history of that moment
Started(call) ==
    IF call.requested THEN call
    ELSE [call EXCEPT !.requested = TRUE, !.request = messages]

Resumable(i) ==
    /\ i \in 1 .. Len(calls)
    /\ calls[i].stream
    /\ calls[i].status \in {"created", "streaming"}

\* StreamYield with full_response = content in place of full_response += content
StreamYieldOverwrites(i, content) ==
    /\ Resumable(i)
    /\ Len(calls[i].yielded) < MaxFrags
    /\ calls' = [Retire(calls) EXCEPT ![i] =
            [Started(calls[i]) EXCEPT
                !.status = "streaming",
                !.full_response = content,
                !.yielded = Append(@, content)]]
    /\ lastEvent' = <<"yield", i>>
    /\ UNCHANGED <<max_memory, messages, appended, cleared, loopVars, heapVars>>

\* next() on generator i: the stream delivers a chunk, which is yielded
StreamYield(i, content) ==
    /\ Resumable(i)
    /\ Len(calls[i].yielded) < MaxFrags
    /\ calls' = [Retire(calls) EXCEPT ![i] =
            [Started(calls[i]) EXCEPT
                !.status = "streaming",
                !.full_response = @ \o content,
                !.yielded = Append(@, content)]]
    /\ lastEvent' = <<"yield", i>>
    /\ UNCHANGED <<max_memory, messages, appended, cleared, loopVars, heapVars>>

\* next() on generator i: the stream is exhausted; the assistant turn is
\* appended, the history trimmed, and the generator returns
StreamDone(i) ==
    /\ Resumable(i)
    /\ LET content == calls[i].full_response
       IN /\ messages' = _trim_history(
                    Append(messages, AssistantTurn(content)), max_memory)
          /\ appended' = Append(appended, AssistantTurn(content))
          /\ calls' = [Retire(calls) EXCEPT ![i] =
                [Started(calls[i]) EXCEPT
                    !.status = "done", !.asstAppends = @ + 1,
                    !.asstContent = content]]
    /\ lastEvent' = <<"stream_done", i>>
    /\ UNCHANGED <<max_memory, cleared, loopVars, heapVars>>

\* StreamFail keeping the partial response as an assistant turn
StreamFailKeepsPartial(i) ==
    /\ Resumable(i)
    /\ LET content == calls[i].full_response
       IN /\ messages' = Append(messages, AssistantTurn(content))
          /\ appended' = Append(appended, AssistantTurn(content))
          /\ calls' = [Retire(calls) EXCEPT ![i] =
                [Started(calls[i]) EXCEPT
                    !.status = "failed", !.asstAppends = @ + 1,
                    !.asstContent = content]]
    /\ lastEvent' = <<"stream_failed", i>>
    /\ UNCHANGED <<max_memory, cleared, loopVars, heapVars>>

\* next() on generator i: ollama.chat or the chunk iteration raises
StreamFail(i) ==
    /\ Resumable(i)
    /\ calls' = [Retire(calls) EXCEPT ![i] =
            [Started(calls[i]) EXCEPT !.status = "failed"]]
    /\ lastEvent' = <<"stream_failed", i>>
    /\ UNCHANGED <<max_memory, messages, appended, cleared, loopVars, heapVars>>

\* clear()
Clear ==
    /\ cleared < MaxClears
    /\ cleared' = cleared + 1
    /\ messages' = <<>>
    /\ appended' = <<>>
    /\ calls' = Retire(calls)
    /\ lastEvent' = <<"clear", 0>>
    /\ UNCHANGED <<max_memory, loopVars, heapVars>>

Next ==
    \/ SendReply(MessageOf(Len(calls) + 1), ReplyOf(Len(calls) + 1))
    \/ SendFail(MessageOf(Len(calls) + 1))
    \/ SendStream(MessageOf(Len(calls) + 1))
    \/ \E i \in 1 .. MaxSends :
            StreamYield(i, FragmentOf(i, Len(calls[i].yielded) + 1))
    \/ \E i \in 1 .. MaxSends : StreamDone(i)
    \/ \E i \in 1 .. MaxSends : StreamFail(i)
    \/ Clear

Spec == Init /\ [][Next]_vars

----------------------------------------------------------------------------
(* get_history and the objects it shares with the Conversation.  Python    *)
(* lists and dicts are objects: two names can hold the same one.  Here the *)
(* history is kept as objects, a list of dict identities, and the caller   *)
(* works on the list get_history returned.                                 *)

\* the turns a list holds, as the caller or the backend reads them
Turns(list) == [k \in 1 .. Len(lists[list]) |-> dicts[lists[list][k]]]

\* send(message) and _get_response, the request succeeds with reply: the two
\* appends change the list in place, the slice of _trim_history is a new
\* list
HeapSend(message, reply) ==
    LET user == Len(dicts) + 1
        assistant == Len(dicts) + 2
        answered == lists[self_messages] \o <<user, assistant>>
        inPlace == [lists EXCEPT ![self_messages] = answered]
    IN  /\ heapOps.send < MaxSends
        /\ heapOps' = [heapOps EXCEPT !.send = @ + 1]
        /\ dicts' = dicts \o <<UserTurn(message), AssistantTurn(reply)>>
        /\ IF max_memory > 0 /\ Len(answered) > max_memory
           THEN /\ lists' = Append(inPlace,
                                   _trim_history(answered, max_memory))
                /\ self_messages' = Len(lists) + 1
           ELSE /\ lists' = inPlace
                /\ self_messages' = self_messages
        /\ lastEvent' = <<"send_done", heapOps.send + 1>>
        /\ UNCHANGED <<max_memory, messages, calls, appended, cleared,
                       returned, loopVars>>

\* clear(): self.messages = [] binds a new empty list
HeapClear ==
    /\ heapOps.clear < MaxClears
    /\ heapOps' = [heapOps EXCEPT !.clear = @ + 1]
    /\ lists' = Append(lists, <<>>)
    /\ self_messages' = Len(lists) + 1
    /\ lastEvent' = <<"clear", heapOps.clear + 1>>
    /\ UNCHANGED <<max_memory, messages, calls, appended, cleared, dicts,
                   returned, loopVars>>

\* get_history(): self.messages.copy() is a new list holding the same dicts
get_history ==
    /\ heapOps.get < MaxSnapshots
    /\ heapOps' = [heapOps EXCEPT !.get = @ + 1]
    /\ lists' = Append(lists, lists[self_messages])
    /\ returned' = Len(lists) + 1
    /\ lastEvent' = <<"get_history", heapOps.get + 1>>
    /\ UNCHANGED <<max_memory, messages, calls, appended, cleared, dicts,
                   self_messages, loopVars>>

\* the caller holds a returned list and is about to change it
Editing ==
    /\ returned # 0
    /\ heapOps.edit < MaxEdits
    /\ heapOps' = [heapOps EXCEPT !.edit = @ + 1]
    /\ lastEvent' = <<"caller", heapOps.edit + 1>>
    /\ UNCHANGED <<max_memory, messages, calls, appended, cleared,
                   self_messages, returned, loopVars>>

\* history.append({'role': 'user', 'content': text})
CallerAppends(text) ==
    /\ Editing
    /\ dicts' = Append(dicts, UserTurn(text))
    /\ lists' = [lists EXCEPT ![returned] = Append(@, Len(dicts) + 1)]

\* del history[k]
CallerRemoves(k) ==
    /\ Editing
    /\ k \in 1 .. Len(lists[returned])
    /\ lists' = [lists EXCEPT ![returned] =
                    SubSeq(@, 1, k - 1) \o SubSeq(@, k + 1, Len(@))]
    /\ dicts' = dicts

\* history.reverse()
CallerReverses ==
    /\ Editing
    /\ Len(lists[returned]) > 1
    /\ lists' = [lists EXCEPT ![returned] =
                    [j \in 1 .. Len(@) |-> @[(Len(@) + 1) - j]]]
    /\ dicts' = dicts

\* history[k]['role'] = role
CallerSetsRole(k, role) ==
    /\ Editing
    /\ k \in 1 .. Len(lists[returned])
    /\ dicts[lists[returned][k]].role # role
    /\ dicts' = [dicts EXCEPT ![lists[returned][k]].role = role]
    /\ lists' = lists

\* history[k]['content'] = text
CallerSetsContent(k, text) ==
    /\ Editing
    /\ k \in 1 .. Len(lists[returned])
    /\ dicts' = [dicts EXCEPT ![lists[returned][k]].content = text]
    /\ lists' = lists

\* what the caller writes
CallerText == <<"x">>

HeapNext ==
    \/ HeapSend(MessageOf(heapOps.send + 1), ReplyOf(heapOps.send + 1))
    \/ HeapClear
    \/ get_history
    \/ CallerAppends(CallerText)
    \/ \E k \in 1 .. 2 * MaxSends : CallerRemoves(k)
    \/ CallerReverses
    \/ \E k \in 1 .. 2 * MaxSends, role \in {"user", "assistant"} :
            CallerSetsRole(k, role)
    \/ \E k \in 1 .. 2 * MaxSends : CallerSetsContent(k, CallerText)

HeapSpec == Init /\ [][HeapNext]_vars

----------------------------------------------------------------------------
(* The __main__ block: the agent loop and the input thread *)

initial_prompt == <<"initial_prompt">>

\* the text sent after subprocess.TimeoutExpired
TimeoutNotice == <<"Command timed out.">>

\* what a completed command can have written and returned
Stdouts == {<<>>, <<"out">>}
Stderrs == {<<>>, <<"err">>}
ReturnCodes == {0, 1}

\* str(e) of an exception raised by subprocess.run, and by ollama.chat
HostErrors == {<<"host error">>}
BackendErrors == {<<"backend error">>}

\* lines input() can return
Lines == {<<>>, <<" ">>, <<"hi">>, <<" ", "yo", " ">>}

Whitespace == {" ", "\t", "\n"}

Last(seq) == seq[Len(seq)]

RECURSIVE lstrip(_)
lstrip(text) ==
    IF text # <<>> /\ Head(text) \in Whitespace THEN lstrip(Tail(text))
    ELSE text

RECURSIVE rstrip(_)
rstrip(text) ==
    IF text # <<>> /\ Last(text) \in Whitespace
    THEN rstrip(SubSeq(text, 1, Len(text) - 1))
    ELSE text

\* str.strip()
strip(text) == rstrip(lstrip(text))

\* "\n".join(parts)
RECURSIVE join(_)
join(parts) ==
    IF parts = <<>> THEN <<>>
    ELSE IF Len(parts) = 1 THEN Head(parts)
    ELSE Head(parts) \o <<"\n">> \o join(Tail(parts))

BasePrefersStdout(output) ==
    IF output.stdout # <<>> THEN output.stdout ELSE output.stderr

\* feedback = stderr if stderr is not empty, else stdout
BaseFeedback(output) ==
    IF output.stderr # <<>> THEN output.stderr ELSE output.stdout

\* f"{feedback}\n\nUser says: {user_text}" when user_messages is not empty
WithUserMessages(text, queued) ==
    IF queued # <<>>
    THEN text \o <<"\n", "\n", "User says: ">> \o join(queued)
    ELSE text

LoopInit ==
    /\ max_memory = -1
    /\ ConversationInit
    /\ MainInit

\* the main thread is inside ollama.chat, called by conv.send
SendPcs == {"send_init", "send_feedback", "send_timeout", "send_fault"}

\* the process has ended: break out of the loop, or an uncaught exception
Stopped == {"terminated", "crashed"}

\* line 137: conv.send(initial_prompt) appends the user turn and calls the
\* backend
StartSend ==
    /\ pc = "start"
    /\ messages' = Append(messages, UserTurn(initial_prompt))
    /\ sends' = sends + 1
    /\ reported' = TRUE
    /\ pc' = "send_init"
    /\ UNCHANGED <<max_memory, calls, appended, cleared, lastEvent, heapVars>>
    /\ UNCHANGED <<command, commandFor, shell_output, feedback, user_messages,
                   error, input_queue, inputOpen, linesRead, pushed, drains,
                   executed, outcomes, replies, fresh, interrupted>>

\* ollama.chat returns: the assistant turn is appended, the history trimmed
\* and the reply becomes command
SendReturns ==
    /\ pc \in SendPcs
    /\ LET reply == ReplyOf(sends)
       IN /\ messages' = _trim_history(
                    Append(messages, AssistantTurn(reply)), max_memory)
          /\ command' = reply
    /\ commandFor' = Last(messages).content
    /\ replies' = replies + 1
    /\ fresh' = TRUE
    /\ pc' = "run"
    /\ UNCHANGED <<max_memory, calls, appended, cleared, lastEvent, heapVars>>
    /\ UNCHANGED <<shell_output, feedback, user_messages, error, input_queue,
                   inputOpen, linesRead, pushed, drains, executed, outcomes,
                   reported, sends, interrupted>>

\* SendRaises with every handler swallowing the exception and going on with
\* the loop
SendRaisesSwallowed(e) ==
    /\ pc \in SendPcs
    /\ IF pc = "send_feedback"
       THEN error' = e /\ pc' = "handle_fault"
       ELSE error' = error /\ pc' = "run"
    /\ UNCHANGED <<convVars, heapVars>>
    /\ UNCHANGED <<command, commandFor, shell_output, feedback, user_messages,
                   input_queue, inputOpen, linesRead, pushed, drains,
                   executed, outcomes, reported, sends, replies, fresh,
                   interrupted>>

\* ollama.chat raises: inside the try (line 177) except Exception takes it;
\* at line 137 and inside the handlers (lines 182, 191) nothing does
SendRaises(e) ==
    /\ pc \in SendPcs
    /\ IF pc = "send_feedback"
       THEN error' = e /\ pc' = "handle_fault"
       ELSE error' = error /\ pc' = "crashed"
    /\ UNCHANGED <<convVars, heapVars>>
    /\ UNCHANGED <<command, commandFor, shell_output, feedback, user_messages,
                   input_queue, inputOpen, linesRead, pushed, drains,
                   executed, outcomes, reported, sends, replies, fresh,
                   interrupted>>

\* KeyboardInterrupt while the main thread waits for the backend: inside the
\* try the loop breaks; elsewhere the exception is not caught
SendInterrupted ==
    /\ pc \in SendPcs
    /\ interrupted' = TRUE
    /\ pc' = IF pc = "send_feedback" THEN "terminated" ELSE "crashed"
    /\ UNCHANGED <<convVars, heapVars>>
    /\ UNCHANGED <<command, commandFor, shell_output, feedback, user_messages,
                   error, input_queue, inputOpen, linesRead, pushed, drains,
                   executed, outcomes, reported, sends, replies, fresh>>

\* subprocess.run is entered with command
Running ==
    /\ pc = "run"
    /\ Len(executed) < MaxCycles
    /\ executed' = Append(executed,
                           [command |-> command, answers |-> commandFor])
    /\ reported' = FALSE
    /\ fresh' = FALSE

\* lines 142-164: the command completes, with any exit code; its output is
\* printed and feedback is stderr when that is not empty, stdout otherwise
RunCompletes(stdout, stderr, returncode) ==
    /\ Running
    /\ shell_output' =
            [stdout |-> stdout, stderr |-> stderr, returncode |-> returncode]
    /\ feedback' = BaseFeedback(shell_output')
    /\ user_messages' = <<>>
    /\ outcomes' = Append(outcomes,
                           IF returncode = 0 THEN "ok" ELSE "nonzero")
    /\ pc' = "drain"
    /\ UNCHANGED <<convVars, heapVars>>
    /\ UNCHANGED <<command, commandFor, error, input_queue, inputOpen,
                   linesRead, pushed, drains, sends, replies, interrupted>>

\* RunTimesOut with except Exception placed before except TimeoutExpired
RunTimesOutAsFault ==
    /\ Running
    /\ outcomes' = Append(outcomes, "timeout")
    /\ error' = <<"TimeoutExpired">>
    /\ pc' = "handle_fault"
    /\ UNCHANGED <<convVars, heapVars>>
    /\ UNCHANGED <<command, commandFor, shell_output, feedback, user_messages,
                   input_queue, inputOpen, linesRead, pushed, drains, sends,
                   replies, interrupted>>

\* the command runs longer than timeout=30: subprocess.TimeoutExpired
RunTimesOut ==
    /\ Running
    /\ outcomes' = Append(outcomes, "timeout")
    /\ pc' = "handle_timeout"
    /\ UNCHANGED <<convVars, heapVars>>
    /\ UNCHANGED <<command, commandFor, shell_output, feedback, user_messages,
                   error, input_queue, inputOpen, linesRead, pushed, drains,
                   sends, replies, interrupted>>

\* RunRaises without the except Exception clause
RunRaisesUncaught(e) ==
    /\ Running
    /\ outcomes' = Append(outcomes, "fault")
    /\ error' = e
    /\ pc' = "crashed"
    /\ UNCHANGED <<convVars, heapVars>>
    /\ UNCHANGED <<command, commandFor, shell_output, feedback, user_messages,
                   input_queue, inputOpen, linesRead, pushed, drains, sends,
                   replies, interrupted>>

\* subprocess.run raises another exception
RunRaises(e) ==
    /\ Running
    /\ outcomes' = Append(outcomes, "fault")
    /\ error' = e
    /\ pc' = "handle_fault"
    /\ UNCHANGED <<convVars, heapVars>>
    /\ UNCHANGED <<command, commandFor, shell_output, feedback, user_messages,
                   input_queue, inputOpen, linesRead, pushed, drains, sends,
                   replies, interrupted>>

\* KeyboardInterrupt during subprocess.run: lines 185-187, break
RunInterrupted ==
    /\ Running
    /\ outcomes' = Append(outcomes, "interrupted")
    /\ interrupted' = TRUE
    /\ pc' = "terminated"
    /\ UNCHANGED <<convVars, heapVars>>
    /\ UNCHANGED <<command, commandFor, shell_output, feedback, user_messages,
                   error, input_queue, inputOpen, linesRead, pushed, drains,
                   sends, replies>>

\* DrainOne taking the newest entry, as a LifoQueue would
DrainNewestFirst ==
    /\ pc = "drain"
    /\ input_queue # <<>>
    /\ user_messages' = Append(user_messages, Last(input_queue))
    /\ input_queue' = SubSeq(input_queue, 1, Len(input_queue) - 1)
    /\ UNCHANGED <<convVars, heapVars>>
    /\ UNCHANGED <<pc, command, commandFor, shell_output, feedback, error,
                   inputOpen, linesRead, pushed, drains, executed, outcomes,
                   reported, sends, replies, fresh, interrupted>>

\* lines 165-167, one round of the while loop: the queue is not empty and
\* get_nowait takes its oldest entry.  The main thread is the only consumer,
\* so the queue cannot become empty between empty() and get_nowait().
DrainOne ==
    /\ pc = "drain"
    /\ input_queue # <<>>
    /\ user_messages' = Append(user_messages, Head(input_queue))
    /\ input_queue' = Tail(input_queue)
    /\ UNCHANGED <<convVars, heapVars>>
    /\ UNCHANGED <<pc, command, commandFor, shell_output, feedback, error,
                   inputOpen, linesRead, pushed, drains, executed, outcomes,
                   reported, sends, replies, fresh, interrupted>>

\* lines 165-177: empty() is true, the while loop ends; the drained messages
\* are added to feedback and conv.send(feedback) appends the user turn and
\* calls the backend
DrainEnd ==
    /\ pc = "drain"
    /\ input_queue = <<>>
    /\ drains' = Append(drains, [user_messages |-> user_messages,
                                  pushedBefore |-> Len(pushed)])
    /\ feedback' = WithUserMessages(feedback, user_messages)
    /\ messages' = Append(messages, UserTurn(feedback'))
    /\ sends' = sends + 1
    /\ reported' = TRUE
    /\ pc' = "send_feedback"
    /\ UNCHANGED <<max_memory, calls, appended, cleared, lastEvent, heapVars>>
    /\ UNCHANGED <<command, commandFor, shell_output, user_messages, error,
                   input_queue, inputOpen, linesRead, pushed, executed,
                   outcomes, replies, fresh, interrupted>>

\* lines 180-182: conv.send("Command timed out.")
HandleTimeout ==
    /\ pc = "handle_timeout"
    /\ messages' = Append(messages, UserTurn(TimeoutNotice))
    /\ sends' = sends + 1
    /\ reported' = TRUE
    /\ pc' = "send_timeout"
    /\ UNCHANGED <<max_memory, calls, appended, cleared, lastEvent, heapVars>>
    /\ UNCHANGED <<command, commandFor, shell_output, feedback, user_messages,
                   error, input_queue, inputOpen, linesRead, pushed, drains,
                   executed, outcomes, replies, fresh, interrupted>>

\* lines 189-191: conv.send(f"{e}")
HandleFault ==
    /\ pc = "handle_fault"
    /\ messages' = Append(messages, UserTurn(error))
    /\ sends' = sends + 1
    /\ reported' = TRUE
    /\ pc' = "send_fault"
    /\ UNCHANGED <<max_memory, calls, appended, cleared, lastEvent, heapVars>>
    /\ UNCHANGED <<command, commandFor, shell_output, feedback, user_messages,
                   error, input_queue, inputOpen, linesRead, pushed, drains,
                   executed, outcomes, replies, fresh, interrupted>>

\* input_thread, lines 110-112: input() returns a line, which is put on the
\* queue as it is when it is not blank
InputLine(user_input) ==
    /\ inputOpen
    /\ pc \notin Stopped
    /\ linesRead < MaxInputs
    /\ linesRead' = linesRead + 1
    /\ IF strip(user_input) # <<>>
       THEN /\ input_queue' = Append(input_queue, user_input)
            /\ pushed' = Append(pushed, user_input)
       ELSE UNCHANGED <<input_queue, pushed>>
    /\ UNCHANGED <<convVars, heapVars>>
    /\ UNCHANGED <<pc, command, commandFor, shell_output, feedback,
                   user_messages, error, inputOpen, drains, executed,
                   outcomes, reported, sends, replies, fresh, interrupted>>

\* input_thread, lines 113-114: input() raises EOFError and the thread ends
InputEOF ==
    /\ inputOpen
    /\ pc \notin Stopped
    /\ inputOpen' = FALSE
    /\ UNCHANGED <<convVars, heapVars>>
    /\ UNCHANGED <<pc, command, commandFor, shell_output, feedback,
                   user_messages, error, input_queue, linesRead, pushed,
                   drains, executed, outcomes, reported, sends, replies,
                   fresh, interrupted>>

LoopNext ==
    \/ StartSend
    \/ SendReturns
    \/ \E e \in BackendErrors : SendRaises(e)
    \/ SendInterrupted
    \/ \E stdout \in Stdouts, stderr \in Stderrs, returncode \in ReturnCodes :
            RunCompletes(stdout, stderr, returncode)
    \/ RunTimesOut
    \/ \E e \in HostErrors : RunRaises(e)
    \/ RunInterrupted
    \/ DrainOne
    \/ DrainEnd
    \/ HandleTimeout
    \/ HandleFault
    \/ \E user_input \in Lines : InputLine(user_input)
    \/ InputEOF

LoopSpec == LoopInit /\ [][LoopNext]_vars

----------------------------------------------------------------------------
(* The agent loop running for ever.  The loop never reads the history,    *)
(* and what it does next depends on pc, the queue and the outcome of the  *)
(* execution only.  The actions below are the loop's steps without the    *)
(* history and without the logs that LoopSpec keeps for its claims, so    *)
(* that a behaviour can go round the loop any number of times in a finite *)
(* state space.  Interrupts and backend failures are left out: LiveSpec   *)
(* is the loop that is not interrupted and whose requests all succeed.    *)

\* what LiveSpec leaves as it was at the start
untracked == <<messages, commandFor, drains, executed, outcomes, reported,
               sends, replies, fresh, interrupted>>

\* line 137: conv.send(initial_prompt) is called
LiveStartSend ==
    /\ pc = "start"
    /\ pc' = "send_init"
    /\ UNCHANGED <<max_memory, calls, appended, cleared, lastEvent, heapVars>>
    /\ UNCHANGED <<command, shell_output, feedback, user_messages, error,
                   input_queue, inputOpen, linesRead, pushed, untracked>>

\* conv.send returns a reply, which becomes command
LiveSendReturns ==
    /\ pc \in SendPcs
    /\ command' = ReplyOf(0)
    /\ pc' = "run"
    /\ UNCHANGED <<max_memory, calls, appended, cleared, lastEvent, heapVars>>
    /\ UNCHANGED <<shell_output, feedback, user_messages, error, input_queue,
                   inputOpen, linesRead, pushed, untracked>>

\* lines 142-164: the command completes, with any exit code
LiveRunCompletes(stdout, stderr, returncode) ==
    /\ pc = "run"
    /\ shell_output' =
            [stdout |-> stdout, stderr |-> stderr, returncode |-> returncode]
    /\ feedback' = BaseFeedback(shell_output')
    /\ user_messages' = <<>>
    /\ pc' = "drain"
    /\ UNCHANGED <<max_memory, calls, appended, cleared, lastEvent, heapVars>>
    /\ UNCHANGED <<command, error, input_queue, inputOpen, linesRead, pushed,
                   untracked>>

\* the command runs longer than timeout=30: subprocess.TimeoutExpired
LiveRunTimesOut ==
    /\ pc = "run"
    /\ pc' = "handle_timeout"
    /\ UNCHANGED <<max_memory, calls, appended, cleared, lastEvent, heapVars>>
    /\ UNCHANGED <<command, shell_output, feedback, user_messages, error,
                   input_queue, inputOpen, linesRead, pushed, untracked>>

\* subprocess.run raises another exception
LiveRunRaises(e) ==
    /\ pc = "run"
    /\ error' = e
    /\ pc' = "handle_fault"
    /\ UNCHANGED <<max_memory, calls, appended, cleared, lastEvent, heapVars>>
    /\ UNCHANGED <<command, shell_output, feedback, user_messages,
                   input_queue, inputOpen, linesRead, pushed, untracked>>

\* lines 165-177: the queue is empty, the drained messages are added to
\* feedback and conv.send(feedback) is called
LiveDrainEnd ==
    /\ pc = "drain"
    /\ input_queue = <<>>
    /\ feedback' = WithUserMessages(feedback, user_messages)
    /\ pc' = "send_feedback"
    /\ UNCHANGED <<max_memory, calls, appended, cleared, lastEvent, heapVars>>
    /\ UNCHANGED <<command, shell_output, user_messages, error, input_queue,
                   inputOpen, linesRead, pushed, untracked>>

\* lines 180-182: conv.send("Command timed out.") is called
LiveHandleTimeout ==
    /\ pc = "handle_timeout"
    /\ pc' = "send_timeout"
    /\ UNCHANGED <<max_memory, calls, appended, cleared, lastEvent, heapVars>>
    /\ UNCHANGED <<command, shell_output, feedback, user_messages, error,
                   input_queue, inputOpen, linesRead, pushed, untracked>>

\* lines 189-191: conv.send(f"{e}") is called
LiveHandleFault ==
    /\ pc = "handle_fault"
    /\ pc' = "send_fault"
    /\ UNCHANGED <<max_memory, calls, appended, cleared, lastEvent, heapVars>>
    /\ UNCHANGED <<command, shell_output, feedback, user_messages, error,
                   input_queue, inputOpen, linesRead, pushed, untracked>>

\* the steps of the main thread
LiveMain ==
    \/ LiveStartSend
    \/ LiveSendReturns
    \/ \E stdout \in Stdouts, stderr \in Stderrs, returncode \in ReturnCodes :
            LiveRunCompletes(stdout, stderr, returncode)
    \/ LiveRunTimesOut
    \/ \E e \in HostErrors : LiveRunRaises(e)
    \/ DrainOne
    \/ LiveDrainEnd
    \/ LiveHandleTimeout
    \/ LiveHandleFault

LiveNext ==
    \/ LiveMain
    \/ \E user_input \in Lines : InputLine(user_input)
    \/ InputEOF

\* The main thread is never blocked for ever: the backend answers every
\* request, subprocess.run returns or raises within its timeout, and the
\* drain does not block.  Nothing is assumed about the input thread.
LiveSpec == LoopInit /\ [][LiveNext]_vars /\ WF_vars(LiveMain)

----------------------------------------------------------------------------
(* Claims about the Conversation, checked under Spec *)

\* the calls in progress and the call that has just finished
CallIds == {i \in 1 .. Len(calls) : calls[i].status # "retired"}

RECURSIVE Concat(_)
Concat(fragments) ==
    IF fragments = <<>> THEN <<>>
    ELSE Head(fragments) \o Concat(Tail(fragments))

\* C1: every send call, streaming or not, has appended exactly one user
\* turn; it has appended exactly one assistant turn once its exchange has
\* succeeded, and none as long as it has not, in particular when the
\* backend request failed.
C1_SendAppends ==
    \A i \in CallIds :
        /\ calls[i].userAppends = 1
        /\ calls[i].status = "done" => calls[i].asstAppends = 1
        /\ calls[i].status # "done" => calls[i].asstAppends = 0

\* a streamed exchange has just succeeded after yielding two fragments,
\* while another send call has appended its user turn
C1_Witness ==
    /\ \E i \in CallIds : /\ calls[i].stream
                          /\ calls[i].status = "done"
                          /\ Len(calls[i].yielded) = 2
    /\ Len(calls) = 3
    /\ Len(appended) = 5

\* C2: for max_memory = N > 0, right after a send has completed
\* successfully (assistant turn appended, trim run) the history holds at most
\* N turns; with N = 4 and three successful sends it holds exactly the last
\* four of the six turns.
C2_BoundedAfterExchange ==
    (max_memory > 0 /\ lastEvent[1] \in {"send_done", "stream_done"}) =>
        /\ Len(messages) <= max_memory
        /\ (/\ max_memory = 4
            /\ Len(appended) = 6
            /\ Len(calls) = 3)
           => /\ Len(messages) = 4
              /\ messages = SubSeq(appended, 3, 6)

\* the third successful send with max_memory = 4 has evicted the first pair
C2_Witness ==
    /\ max_memory = 4
    /\ cleared = 0
    /\ lastEvent = <<"send_done", 3>>
    /\ Len(appended) = 6
    /\ Len(messages) = 4

\* C3: the history is always a contiguous suffix of the turns appended since
\* creation or the last clear, in the order they were appended.
C3_SuffixOfAppended ==
    /\ Len(messages) <= Len(appended)
    /\ messages = SubSeq(appended, (Len(appended) - Len(messages)) + 1,
                         Len(appended))

\* a trim has evicted turns and left survivors that differ from the evicted
C3_Witness ==
    /\ max_memory = 2
    /\ Len(appended) = 4
    /\ Len(messages) = 2
    /\ SubSeq(appended, 1, 2) # messages

\* C4 (as claimed): the history handed to the backend for a send call has
\* that call's message as its last entry, whenever the generator of a
\* streaming send is first iterated.
C4_RequestEndsWithOwnMessage ==
    \A i \in CallIds :
        calls[i].requested =>
            /\ calls[i].request # <<>>
            /\ Last(calls[i].request) = UserTurn(calls[i].message)

\* C5: in streaming mode a next() that yields a fragment leaves the history
\* as it was; the assistant turn is appended once, when the stream is
\* exhausted, with the in-order concatenation of the yielded fragments as its
\* content, and the trim has run after that append.
C5_StreamState ==
    /\ \A i \in CallIds :
        calls[i].stream =>
            /\ calls[i].status # "done" => calls[i].asstAppends = 0
            /\ calls[i].status = "done" =>
                /\ calls[i].asstAppends = 1
                /\ calls[i].asstContent = Concat(calls[i].yielded)
    /\ lastEvent[1] = "stream_done" =>
        /\ Last(appended) = AssistantTurn(Concat(calls[lastEvent[2]].yielded))
        /\ Last(messages) = Last(appended)
        /\ max_memory > 0 => Len(messages) <= max_memory

C5_YieldKeepsHistory ==
    (\E i \in CallIds :
        /\ i \in DOMAIN calls'
        /\ Len(calls'[i].yielded) > Len(calls[i].yielded))
    => messages' = messages

\* C5: both parts, the state of every stream and the steps that yield
C5_StreamDefersAppend == [] C5_StreamState /\ [][C5_YieldKeepsHistory]_vars

\* a stream that yielded two different fragments has completed and the
\* history was trimmed after its turn was appended
C5_Witness ==
    /\ lastEvent[1] = "stream_done"
    /\ Len(calls[lastEvent[2]].yielded) = 2
    /\ max_memory > 0
    /\ Len(messages) < Len(appended)

\* C13 (as claimed): for max_memory = N > 0 the history never holds more
\* than N + 1 turns, whether requests succeed or fail, and the history handed
\* to the backend never has more than N + 1 turns.
C13_AtMostOneOver ==
    max_memory > 0 =>
        /\ Len(messages) <= max_memory + 1
        /\ \A i \in CallIds :
                calls[i].requested => Len(calls[i].request) <= max_memory + 1

\* the user turns appended since the last clear
UserTurnsSinceClear ==
    {k \in 1 .. Len(appended) : appended[k].role = "user"}

\* C15 (as claimed): clear() leaves the history empty, and for the first send
\* after a clear the backend receives exactly one turn, that send's user
\* message, whatever was done before the clear.
C15_SendAfterClearStartsEmpty ==
    /\ lastEvent[1] = "clear" => messages = <<>>
    /\ \A i \in CallIds :
        (/\ cleared > 0
         /\ calls[i].requested
         /\ Cardinality(UserTurnsSinceClear) = 1
         /\ \E k \in UserTurnsSinceClear :
                appended[k] = UserTurn(calls[i].message))
        => calls[i].request = <<UserTurn(calls[i].message)>>

\* C17: with max_memory <= 0 (-1 and 0) _trim_history removes nothing: as
\* long as clear() has not been called the history is every turn appended so
\* far, so it grows by one with each append and never gets shorter.
C17_NoLimitKeepsAll ==
    (max_memory <= 0 /\ cleared = 0) => messages = appended

C17_Witness ==
    /\ max_memory = 0
    /\ cleared = 0
    /\ Len(messages) = 5
    /\ lastEvent[1] = "stream_done"

\* the turns with the given role appended since the last clear
TurnsSinceClear(role) ==
    {k \in 1 .. Len(appended) : appended[k].role = role}

\* no streaming send was ever made, and every send since the last clear got
\* its reply: as many assistant turns as user turns were appended
OnlyAnsweredPlainSends ==
    /\ \A i \in 1 .. Len(calls) : ~calls[i].stream
    /\ Cardinality(TurnsSinceClear("user")) =
            Cardinality(TurnsSinceClear("assistant"))

\* C20: when only non-streaming sends are used and every request succeeded,
\* for every max_memory no two adjacent turns of the history have the same
\* role, and between send calls a non-empty history ends with an assistant
\* turn.
C20_RolesAlternate ==
    OnlyAnsweredPlainSends =>
        /\ \A k \in 1 .. Len(messages) - 1 :
                messages[k].role # messages[k + 1].role
        /\ messages # <<>> => Last(messages).role = "assistant"

C20_Witness ==
    /\ OnlyAnsweredPlainSends
    /\ max_memory = 3
    /\ Len(messages) = 3
    /\ messages[1].role = "assistant"
    /\ Len(appended) = 6

\* C16 (as claimed): get_history() returns an independent copy: nothing the
\* caller does to the returned list or to a turn in it changes the
\* Conversation's history, and a later send or clear does not change a
\* list returned earlier.
C16_CopyIsIndependent ==
    [][/\ lastEvent'[1] = "caller" =>
            Turns(self_messages)' = Turns(self_messages)
       /\ (returned # 0 /\ lastEvent'[1] \in {"send_done", "clear"}) =>
            (returned' = returned /\ Turns(returned)' = Turns(returned))]_vars

----------------------------------------------------------------------------
(* Claims about the agent loop, checked under LoopSpec *)

LastOutcome == IF outcomes = <<>> THEN "none" ELSE Last(outcomes)

ExecutionFailures == {"timeout", "nonzero", "fault"}

\* the user_messages of the first k finished drains, one after the other
RECURSIVE Drained(_)
Drained(k) ==
    IF k = 0 THEN <<>> ELSE Drained(k - 1) \o drains[k].user_messages

\* C6: after a command timed out, exited with a nonzero code or made
\* subprocess.run raise, the loop is at the send for that outcome and then
\* makes it, with the feedback for that outcome as the user turn; the loop
\* does not stop between the failure and that send.
C6_FailureAbsorbed ==
    /\ (LastOutcome \in ExecutionFailures /\ ~reported) =>
            pc = CASE LastOutcome = "timeout" -> "handle_timeout"
                   [] LastOutcome = "fault" -> "handle_fault"
                   [] LastOutcome = "nonzero" -> "drain"
    /\ (LastOutcome = "timeout" /\ pc \in SendPcs) =>
            /\ pc = "send_timeout"
            /\ Last(messages) = UserTurn(TimeoutNotice)
    /\ (LastOutcome = "fault" /\ pc \in SendPcs) =>
            /\ pc = "send_fault"
            /\ error \in HostErrors
            /\ Last(messages) = UserTurn(error)
    /\ (LastOutcome = "nonzero" /\ pc = "send_feedback") =>
            /\ Last(messages) = UserTurn(feedback)
            /\ SubSeq(feedback, 1, Len(BaseFeedback(shell_output)))
                    = BaseFeedback(shell_output)
    /\ (LastOutcome = "nonzero" /\ pc \in SendPcs) =>
            pc \in {"send_feedback", "send_fault"}

\* the loop has sent the description of a host error, the reply is the next
\* command
C6_Witness ==
    /\ outcomes = <<"nonzero", "fault">>
    /\ pc = "run"
    /\ replies = 3

\* C7 (as claimed): the loop stops making sends and executions only after
\* an interrupt signal was received.
C7_StopsOnlyOnInterrupt == pc \in Stopped => interrupted

\* C8: every execution runs a reply that a successful send returned after
\* the previous execution: no reply is executed twice, and there are never
\* more executions than successful sends.  (ReplyOf gives every send its own
\* reply, so a command found twice in executed is one reply run twice.)
C8_ExecutesFreshReplies ==
    /\ pc = "run" => fresh
    /\ Len(executed) <= replies
    /\ \A i, j \in 1 .. Len(executed) :
            i # j => executed[i].command # executed[j].command

\* a send failed in the try block, the handler's send succeeded and its
\* reply was executed
C8_Witness ==
    /\ error \in BackendErrors
    /\ Len(executed) = 2
    /\ replies = 2
    /\ sends = 3

\* C9: when a command execution times out, the timeout is handled (the loop
\* goes to the handler, it does not stop), the next user turn is the fixed
\* timeout notice, and the command executed next is the reply to that notice.
C9_TimeoutRecovered ==
    /\ (LastOutcome = "timeout" /\ ~reported) => pc = "handle_timeout"
    /\ pc = "send_timeout" =>
            /\ LastOutcome = "timeout"
            /\ Last(messages) = UserTurn(TimeoutNotice)
    /\ (LastOutcome = "timeout" /\ pc = "run") =>
            /\ commandFor = TimeoutNotice
            /\ Last(messages) = AssistantTurn(command)
    /\ \A i \in 1 .. Len(executed) - 1 :
            outcomes[i] = "timeout" =>
                /\ executed[i + 1].answers = TimeoutNotice
                /\ executed[i + 1].command # executed[i].command

\* a command timed out and the reply to the notice was executed
C9_Witness ==
    /\ Len(executed) = 2
    /\ outcomes[1] = "timeout"

\* C10: the messages of the finished drains, then those of the drain in
\* progress, then those still queued are exactly the messages put on the
\* queue, in the order they were put: every drain returns messages in push
\* order, none is returned twice or lost, and a drain holds no message that
\* was put after it finished.  A drain always has a step to take: with an
\* empty queue it ends at once.
C10_DrainsInPushOrder ==
    /\ pushed = Drained(Len(drains))
                    \o (IF pc = "drain" THEN user_messages ELSE <<>>)
                    \o input_queue
    /\ \A k \in 1 .. Len(drains) : Len(Drained(k)) <= drains[k].pushedBefore
    /\ pc = "drain" => ENABLED (DrainOne \/ DrainEnd)

\* one drain returned two messages, another drain found the queue empty
C10_Witness ==
    /\ Len(drains) = 2
    /\ \E k \in 1 .. 2 : Len(drains[k].user_messages) = 2
    /\ \E k \in 1 .. 2 : drains[k].user_messages = <<>>

\* C11 (as claimed): in every cycle, whatever the outcome of the execution,
\* the queue has been drained once before the cycle's feedback is sent: at
\* each send made by the loop there are as many finished drains as
\* executions.
C11_DrainedEveryCycle ==
    pc \in {"send_feedback", "send_timeout", "send_fault"} =>
        Len(drains) = Len(executed)

\* C12 (as claimed): an interrupt delivered at any point of the loop, during
\* an execution or during any send the loop makes, leads to the orderly exit
\* (the except KeyboardInterrupt clause and its break).
C12_InterruptExitsOrderly ==
    (interrupted /\ executed # <<>>) => pc = "terminated"

\* C14 (as claimed): on normal completion the feedback sent as the next user
\* turn contains the command's exit code together with its output.
C14_FeedbackHasExitCode ==
    (pc = "send_feedback" /\ LastOutcome \in {"ok", "nonzero"}) =>
        /\ \E k \in 1 .. Len(Last(messages).content) :
                Last(messages).content[k] = ToString(shell_output.returncode)
        /\ SubSeq(Last(messages).content, 1,
                  Len(BaseFeedback(shell_output))) = BaseFeedback(shell_output)

\* "\n".join(said), written out from the last message backwards
RECURSIVE C19_Joined(_)
C19_Joined(said) ==
    IF Len(said) = 0 THEN <<>>
    ELSE IF Len(said) = 1 THEN said[1]
    ELSE C19_Joined(SubSeq(said, 1, Len(said) - 1)) \o <<"\n">> \o said[Len(said)]

\* C19: on the normal-completion path the base is stderr when it is not
\* empty and stdout otherwise; the feedback sent is the base alone when the
\* drain returned nothing, and otherwise the base, a blank line, the marker
\* 'User says: ' and the drained messages joined by newlines in arrival order.
C19_FeedbackComposition ==
    pc = "send_feedback" =>
        LET base == IF shell_output.stderr # <<>>
                    THEN shell_output.stderr
                    ELSE shell_output.stdout
            said == Last(drains).user_messages
        IN  Last(messages) =
                UserTurn(IF said = <<>>
                         THEN base
                         ELSE base \o <<"\n", "\n", "User says: ">>
                                   \o C19_Joined(said))

C19_Witness ==
    /\ pc = "send_feedback"
    /\ shell_output.stderr # <<>>
    /\ shell_output.stdout # <<>>
    /\ Len(Last(drains).user_messages) = 2
    /\ Len(Last(messages).content) > 6

\* how many of the pushed messages were taken off the queue by a drain that
\* has finished, and so were part of the feedback sent after it
Delivered ==
    (Len(pushed) - Len(input_queue))
        - (IF pc = "drain" THEN Len(user_messages) ELSE 0)

\* C18 (as claimed): when the loop is not interrupted and every backend
\* request succeeds, every message the operator pushed is eventually part of
\* a feedback sent to the model, whatever the outcomes of the commands.
C18_EveryMessageReachesModel ==
    \A n \in 1 .. MaxInputs : (Len(pushed) >= n) ~> (Delivered >= n)

====
